---- MODULE Spec2Model ----
(***************************************************************************)
(* Level-wise crawler of simple-crawler: crawler.py (__main__ driver, one  *)
(* crawl_sub_urls round, keyword filter) and just_sitemaps.py (crawl(),    *)
(* two crawl_sub_urls rounds).  URLs and content types are strings; the    *)
(* string tests of the code (in, +, replace) are computed on them.         *)
(***************************************************************************)
EXTENDS Integers, Sequences, FiniteSets, TLC

(***************************************************************************)
(* Python string and list primitives                                       *)
(***************************************************************************)

\* Python: sub in s
Contains(sub, s) ==
    \E i \in 0..(Len(s) - Len(sub)) : SubSeq(s, i + 1, i + Len(sub)) = sub

\* first index (1-based) at which sub occurs in s, 0 when it does not occur
Find(sub, s) ==
    IF Contains(sub, s)
    THEN CHOOSE i \in 1..(Len(s) - Len(sub) + 1) :
            /\ SubSeq(s, i, i + Len(sub) - 1) = sub
            /\ \A j \in 1..(i - 1) : SubSeq(s, j, j + Len(sub) - 1) # sub
    ELSE 0

\* Python: s.replace(old, new), every non-overlapping occurrence, left to right
RECURSIVE Replace(_, _, _)
Replace(s, old, new) ==
    IF Len(s) < Len(old) THEN s
    ELSE IF SubSeq(s, 1, Len(old)) = old
         THEN new \o Replace(SubSeq(s, Len(old) + 1, Len(s)), old, new)
         ELSE SubSeq(s, 1, 1) \o Replace(SubSeq(s, 2, Len(s)), old, new)

\* Python: s.endswith(suffix)
EndsWith(s, suffix) ==
    /\ Len(s) >= Len(suffix)
    /\ SubSeq(s, Len(s) - Len(suffix) + 1, Len(s)) = suffix

\* Python: x in list
InList(x, xs) == \E i \in 1..Len(xs) : xs[i] = x

Elems(xs) == {xs[i] : i \in 1..Len(xs)}

\* Python: list(dict.fromkeys(xs)), the first occurrence of each element is kept
RECURSIVE DictFromKeys(_)
DictFromKeys(xs) ==
    IF xs = <<>> THEN <<>>
    ELSE LET front == DictFromKeys(SubSeq(xs, 1, Len(xs) - 1))
             x == xs[Len(xs)]
         IN IF InList(x, front) THEN front ELSE Append(front, x)

(***************************************************************************)
(* get_result_meta: urlparse(url) and the site root "main"                 *)
(***************************************************************************)

\* urlparse(url).scheme: the text before the first ":" ("" when there is none)
UrlScheme(url) ==
    LET c == Find(":", url)
    IN IF c > 1 /\ ~Contains("/", SubSeq(url, 1, c - 1)) /\ ~Contains("#", SubSeq(url, 1, c - 1))
       THEN SubSeq(url, 1, c - 1) ELSE ""

\* the text after "scheme:"
UrlRest(url) ==
    IF UrlScheme(url) = "" THEN url
    ELSE SubSeq(url, Len(UrlScheme(url)) + 2, Len(url))

\* index of the first of "/", "?", "#" in s, Len(s)+1 when there is none
NetlocEnd(s) ==
    LET stops == {i \in 1..Len(s) : SubSeq(s, i, i) \in {"/", "?", "#"}}
    IN IF stops = {} THEN Len(s) + 1
       ELSE CHOOSE i \in stops : \A j \in stops : i <= j

\* urlparse(url).netloc: present only after "//", up to the next "/", "?" or "#"
UrlNetloc(url) ==
    LET rest == UrlRest(url)
    IN IF Len(rest) >= 2 /\ SubSeq(rest, 1, 2) = "//"
       THEN LET after == SubSeq(rest, 3, Len(rest))
            IN SubSeq(after, 1, NetlocEnd(after) - 1)
       ELSE ""

\* get_result_meta(url)["main"]
get_result_meta(url) ==
    IF UrlNetloc(url) # ""
    THEN UrlScheme(url) \o "://" \o UrlNetloc(url) \o "/"
    ELSE url

(***************************************************************************)
(* Bounds and input sets                                                   *)
(***************************************************************************)

\* most anchors with an href on one rendered page
MaxLinks == 2

\* most requests in driver.requests when get_url_header reads them
MaxCaptured == 1

Variants == {"crawler", "sitemaps"}

\* sys.argv[1] / initial_url
Seeds == {"http://x.com/", "http://www.x.com/"}

\* sys.argv[2]; the empty keyword is contained in every link
Keywords == {"", "/a"}

\* values of tag.get_attribute('href')
RawLinks == {"http://x.com/", "http://www.x.com/a", "http://y.com/"}

\* raw links of the link-filter specification
FilterRawLinks == {"javascript:void(0)", "mailto:a@b.com", "/about", "#section",
                   "http://www.x.com/a", "http://x.com/a"}

\* most raw links handed to the link filter in the link-filter specification
MaxFilterLinks == 4

\* most URLs of one crawl_sub_urls round in the session specification
MaxRoundUrls == 2

\* the keyword of the keyword example and the anchors of its page
ExampleKeyword == "news"
KeywordRawLinks == {"http://x.com/sports", "http://x.com/news/1", "/news/2",
                    "http://y.com/news", "http://x.com/news#top"}

\* URLs handed to get_url_header in the classifier specification: without an
\* extension, with one mimetypes knows as HTML, with one it knows as something else
ClassifyUrls == {"http://x.com/", "http://x.com/a.html", "http://x.com/f.pdf"}

SeqsUpTo(S, n) == UNION {[1..k -> S] : k \in 0..n}

\* Python None as the value of content_type
None == "<None>"

\* kinds of exception: none, a subclass of Exception, one that is only a BaseException
NoExc == "none"
Exc == "Exception"
BaseExc == "KeyboardInterrupt"

(***************************************************************************)
(* get_url_header                                                          *)
(***************************************************************************)

\* mimetypes.guess_type(url)[0]: decided by the extension of the path
guess_type(url) ==
    IF EndsWith(url, ".html") THEN "text/html"
    ELSE IF EndsWith(url, ".pdf") THEN "application/pdf"
    ELSE None

\* the direct GET, the HEAD probe, the body markers and the extension guess:
\* status_code and content_type after the outer try statement
DirectRequest(url, get, head, markers) ==
    IF get.raised = Exc
    THEN [status_code |-> -1, content_type |-> guess_type(url)]
    ELSE [status_code |-> get.status_code,
          content_type |-> IF head.raised = NoExc THEN head.content_type
                           ELSE IF markers THEN "html" ELSE ""]

\* faulty variant: only the redirect is normalised
NormalizeStatus_RedirectOnly(status_code) ==
    IF status_code = 302 THEN 200 ELSE status_code

\* if status_code in [302, 403]: status_code = 200
NormalizeStatus(status_code) ==
    IF status_code \in {302, 403} THEN 200 ELSE status_code

\* for request in driver.requests: ... from position i on, with the values so far
RECURSIVE CapturedLoop(_, _, _, _)
CapturedLoop(main, reqs, i, cur) ==
    IF i > Len(reqs) THEN cur
    ELSE IF ~Contains(main, reqs[i].url) THEN CapturedLoop(main, reqs, i + 1, cur)
    ELSE IF ~reqs[i].has_response THEN cur
    ELSE LET new == [status_code |-> reqs[i].status_code,
                     content_type |-> reqs[i].content_type]
         IN IF new.status_code \in {200, 302} THEN new
            ELSE CapturedLoop(main, reqs, i + 1, new)

\* if status_code not in [200, -1]: the cross-check is entered
CrossCheckEntered(status_code) == status_code \notin {200, -1}

\* the cross-check against the captured network traffic
CrossCheck(main, cur, captured) ==
    IF CrossCheckEntered(cur.status_code) /\ ~captured.raises
    THEN CapturedLoop(main, captured.reqs, 1, cur)
    ELSE cur

\* the fallback for a missing content type; "x in None" is a TypeError
ContentTypeFallback(content_type) ==
    IF content_type = None THEN [raised |-> Exc, content_type |-> None]
    ELSE IF content_type = ""
         THEN IF Contains("binary", content_type) \/ Contains("json", content_type)
                   \/ Contains("plain", content_type)
              THEN [raised |-> NoExc, content_type |-> "html"]
              ELSE [raised |-> NoExc, content_type |-> "error"]
         ELSE [raised |-> NoExc, content_type |-> content_type]

\* the dict {} returned when no webdriver could be created
EmptyDict == [empty |-> TRUE, status_code |-> 0, content_type |-> ""]

Returned(value) == [raised |-> NoExc, value |-> value]
Raised(kind) == [raised |-> kind, value |-> EmptyDict]

\* the values of status_code and content_type along the body of get_url_header:
\* after the outer try, after the normalisation, after the cross-check (and whether
\* it was entered), and the outcome of the content-type fallback
HeaderSteps(url, env) ==
    LET direct == DirectRequest(url, env.get, env.head, env.markers)
        norm == [direct EXCEPT !.status_code = NormalizeStatus(@)]
        cross == CrossCheck(get_result_meta(url), norm, env.captured)
    IN [direct |-> direct, norm |-> norm,
        entered |-> CrossCheckEntered(norm.status_code), cross |-> cross,
        fallback |-> ContentTypeFallback(cross.content_type)]

\* get_url_header(url) under the collaborators' outcomes env
get_url_header(url, env) ==
    IF ~env.driver THEN Returned(EmptyDict)
    ELSE LET cross == HeaderSteps(url, env).cross
             fb == HeaderSteps(url, env).fallback
             body == IF env.get.raised = BaseExc THEN Raised(BaseExc)
                     ELSE IF fb.raised # NoExc THEN Raised(fb.raised)
                     ELSE Returned([empty |-> FALSE, status_code |-> cross.status_code,
                                    content_type |-> fb.content_type])
         IN \* finally: driver.quit()
            IF env.quit = Exc THEN Raised(Exc) ELSE body

\* dict_request["status_code"] in (200, 302) and "html" in dict_request["content_type"];
\* a KeyError on the dict {}
Crawlable(dict_request) ==
    /\ ~dict_request.empty
    /\ dict_request.status_code \in {200, 302}
    /\ Contains("html", dict_request.content_type)

(***************************************************************************)
(* crawl_url and its link filter                                           *)
(***************************************************************************)

\* main: the site root with every "www." removed
MainOf(url) == Replace(get_result_meta(url), "www.", "")

\* main_www: the site root as get_result_meta gives it
MainWwwOf(url) == get_result_meta(url)

\* if 'http' not in href: href = main + href
ResolveHref(main, href) ==
    IF ~Contains("http", href) THEN main \o href ELSE href

\* (main in href or main_www in href)
DomainMember(main, main_www, href) ==
    Contains(main, href) \/ Contains(main_www, href)

\* faulty variant: the keyword test is missing
Excluded_NoKeyword(variant, href, url_kw) ==
    \/ Contains("javascript:void(0)", href)
    \/ Contains("mailto:", href)
    \/ variant = "crawler" /\ Contains("#", href)

\* the exclusions of the variant: crawler.py also drops "#" and applies url_kw
Excluded(variant, href, url_kw) ==
    \/ Contains("javascript:void(0)", href)
    \/ Contains("mailto:", href)
    \/ variant = "crawler" /\ Contains("#", href)
    \/ variant = "crawler" /\ ~Contains(url_kw, href)

\* the filter loop of crawl_url over hrefs and the final dict.fromkeys
FilterLinks(variant, url, hrefs, url_kw) ==
    LET main == MainOf(url)
        main_www == MainWwwOf(url)
        resolved == [i \in 1..Len(hrefs) |-> ResolveHref(main, hrefs[i])]
        keep(h) == DomainMember(main, main_www, h) /\ ~Excluded(variant, h, url_kw)
    IN DictFromKeys(SelectSeq(resolved, keep))

\* crawl_url(url, dict_request, url_kw) under the collaborators' outcomes env
crawl_url(variant, url, dict_request, url_kw, env) ==
    IF ~env.driver THEN [raised |-> NoExc, value |-> <<>>, loaded |-> FALSE]
    ELSE LET body == IF env.load = BaseExc THEN [raised |-> BaseExc, value |-> <<>>]
                     ELSE IF env.load = Exc \/ ~Crawlable(dict_request)
                          THEN [raised |-> NoExc, value |-> <<>>]
                          ELSE [raised |-> NoExc,
                                value |-> FilterLinks(variant, url, env.hrefs, url_kw)]
         IN \* finally: driver.quit()
            IF env.quit = Exc THEN [raised |-> Exc, value |-> <<>>, loaded |-> TRUE]
            ELSE [raised |-> body.raised, value |-> body.value, loaded |-> TRUE]

(***************************************************************************)
(* Outcomes of the collaborators                                           *)
(***************************************************************************)

\* requests.get: a status code, an Exception (network, TLS, timeout) or an interrupt
GetOutcomes ==
    [raised : {NoExc}, status_code : {200, 302, 403, 404}]
        \cup [raised : {Exc, BaseExc}, status_code : {-1}]

\* requests.head: the Content-Type header ("" when absent) or an Exception
HeadOutcomes ==
    [raised : {NoExc}, content_type : {"", "text/html", "application/json"}]
        \cup [raised : {Exc}, content_type : {""}]

\* entries of driver.requests; request.response is None when has_response is FALSE
CapturedRequests ==
    [url : {"http://x.com/app.js"}, has_response : {TRUE},
     status_code : {200, 404}, content_type : {"text/html", ""}]
        \cup [url : {"http://x.com/app.js"}, has_response : {FALSE},
              status_code : {-1}, content_type : {""}]
        \cup [url : {"http://cdn.y.com/t.js"}, has_response : {TRUE},
              status_code : {200}, content_type : {"text/html"}]

HeaderEnvs ==
    [driver : BOOLEAN, get : GetOutcomes, head : HeadOutcomes, markers : BOOLEAN,
     captured : [raises : BOOLEAN, reqs : SeqsUpTo(CapturedRequests, MaxCaptured)],
     quit : {NoExc, Exc}]

CrawlEnvs ==
    [driver : BOOLEAN, load : {NoExc, Exc, BaseExc},
     hrefs : SeqsUpTo(RawLinks, MaxLinks), quit : {NoExc, Exc}]

\* every URL a run can classify or fetch: the seeds and the resolved raw links
AllUrls ==
    Seeds \cup RawLinks \cup {MainOf(s) \o h : s \in Seeds, h \in RawLinks}

\* what get_url_header(url) can do
HeaderResults == [url \in AllUrls |-> {get_url_header(url, env) : env \in HeaderEnvs}]

\* the dicts get_url_header can return
DictRequests == {h.value : h \in UNION {HeaderResults[u] : u \in AllUrls}}

\* what crawl_url(url, dict_request, url_kw) can do
CrawlResults ==
    [v \in Variants, url \in AllUrls, d \in DictRequests, kw \in Keywords |->
        {crawl_url(v, url, d, kw, env) : env \in CrawlEnvs}]

(***************************************************************************)
(* The crawl run                                                           *)
(***************************************************************************)

VARIABLES
    variant,                \* "crawler": crawler.py __main__; "sitemaps": crawl()
    argc,                   \* len(sys.argv)
    seed,                   \* url[0]
    url_kw,                 \* the keyword of crawler.py
    phase,                  \* position of the run
    dict_request,           \* get_url_header(url[0])
    level_0_urls, level_1_urls, level_2_urls,
    crawled_level_0_urls, crawled_level_1_urls, crawled_level_2_urls,
    level,                  \* the crawl_sub_urls round in progress or due next
    idx,                    \* position of the for loop in urls
    result_urls,            \* result_urls of the round in progress
    final_urls,             \* the returned / written list
    raised,                 \* the exception that ended the run, and where it surfaced
    header_calls,           \* history: number of get_url_header calls per URL
    crawl_calls,            \* history: number of crawl_url calls per URL
    page_loads,             \* history: number of driver.get(url) page loads per URL
    sub_runs,               \* history: number of crawl_sub_urls calls
    crawled_before,         \* history: crawled_urls as handed to the latest round
    round_log,              \* history: what the latest round did with each URL of urls
    raw_links, filtered,    \* the link filter applied on its own
    header_url, header_env, \* get_url_header applied on its own: its argument, the
    header_steps,           \* collaborators' outcomes, the values along its body
    header_result,          \* and what it returned or raised
    fn, pc,                 \* the function in execution and its position
    pending,                \* what the function in execution is about to return or raise
    sessions_created,       \* history: drivers returned by create_webdriver
    sessions_quit           \* history: driver.quit() calls

vars == <<variant, argc, seed, url_kw, phase, dict_request,
          level_0_urls, level_1_urls, level_2_urls,
          crawled_level_0_urls, crawled_level_1_urls, crawled_level_2_urls,
          level, idx, result_urls, final_urls, raised,
          header_calls, crawl_calls, page_loads, sub_runs, crawled_before, round_log,
          raw_links, filtered,
          header_url, header_env, header_steps, header_result,
          fn, pc, pending, sessions_created, sessions_quit>>

\* number of crawl_sub_urls rounds of the entry point
Rounds(v) == IF v = "crawler" THEN 1 ELSE 2

LevelUrls(k) ==
    IF k = 0 THEN level_0_urls ELSE IF k = 1 THEN level_1_urls ELSE level_2_urls

CrawledLevel(k) ==
    IF k = 0 THEN crawled_level_0_urls
    ELSE IF k = 1 THEN crawled_level_1_urls ELSE crawled_level_2_urls

\* the arguments of round level: crawl_sub_urls(urls, crawled_urls)
urls == LevelUrls(level - 1)
crawled_urls == CrawledLevel(level - 1)

NoRaise == [kind |-> NoExc, at |-> "none"]

Called(calls, url) == [calls EXCEPT ![url] = @ + 1]

\* a variable that holds nothing yet
Unset == <<>>

\* get_url_header is not applied on its own
ClassifyIdle ==
    /\ header_url = "" /\ header_env = Unset
    /\ header_steps = Unset /\ header_result = Unset

\* no function is followed statement by statement
SessionIdle ==
    /\ fn = "none" /\ pc = "idle" /\ pending = Unset
    /\ sessions_created = 0 /\ sessions_quit = 0

Init ==
    /\ variant \in Variants
    /\ argc \in IF variant = "crawler" THEN {2, 3} ELSE {3}
    /\ seed \in Seeds
    /\ url_kw \in IF variant = "crawler" THEN Keywords ELSE {""}
    /\ phase = "start"
    /\ dict_request = EmptyDict
    /\ level_0_urls = <<>> /\ level_1_urls = <<>> /\ level_2_urls = <<>>
    /\ crawled_level_0_urls = <<>> /\ crawled_level_1_urls = <<>>
    /\ crawled_level_2_urls = <<>>
    /\ level = 0 /\ idx = 0 /\ result_urls = <<>> /\ final_urls = <<>>
    /\ raised = NoRaise
    /\ header_calls = [u \in AllUrls |-> 0] /\ crawl_calls = [u \in AllUrls |-> 0]
    /\ page_loads = [u \in AllUrls |-> 0]
    /\ sub_runs = 0 /\ crawled_before = <<>> /\ round_log = <<>>
    /\ raw_links = <<>> /\ filtered = <<>>
    /\ ClassifyIdle /\ SessionIdle

levelVars == <<level_0_urls, level_1_urls, level_2_urls,
               crawled_level_0_urls, crawled_level_1_urls, crawled_level_2_urls>>
inputVars == <<variant, argc, seed, url_kw>>
roundVars == <<sub_runs, crawled_before, round_log>>
filterVars == <<raw_links, filtered>>
classifyVars == <<header_url, header_env, header_steps, header_result>>
sessionVars == <<fn, pc, pending, sessions_created, sessions_quit>>

\* if len(sys.argv) != 3: sys.exit(1)
Usage ==
    /\ phase = "start" /\ variant = "crawler" /\ argc # 3
    /\ phase' = "usage"
    /\ UNCHANGED <<inputVars, dict_request, levelVars, level, idx, result_urls,
                   final_urls, raised, header_calls, crawl_calls, page_loads, roundVars,
                   filterVars, classifyVars, sessionVars>>

\* dict_request = get_url_header(url[0]), outside every try statement
ClassifySeed ==
    /\ phase = "start" /\ (variant = "crawler" => argc = 3)
    /\ \E h \in HeaderResults[seed] :
          /\ header_calls' = Called(header_calls, seed)
          /\ IF h.raised = NoExc
             THEN /\ dict_request' = h.value
                  /\ phase' = "level0"
                  /\ raised' = raised
             ELSE /\ dict_request' = dict_request
                  /\ phase' = "aborted"
                  /\ raised' = [kind |-> h.raised, at |-> "classify_seed"]
    /\ UNCHANGED <<inputVars, levelVars, level, idx, result_urls, final_urls,
                   crawl_calls, page_loads, roundVars, filterVars, classifyVars, sessionVars>>

\* level 0: crawl_url(url[0], dict_request); crawler.py wraps it in try / except:
Level0 ==
    /\ phase = "level0"
    /\ \E r \in CrawlResults[variant, seed, dict_request, url_kw] :
          /\ crawl_calls' = Called(crawl_calls, seed)
          /\ page_loads' = IF r.loaded THEN Called(page_loads, seed) ELSE page_loads
          /\ IF r.raised = NoExc
             THEN /\ level_0_urls' = r.value
                  /\ crawled_level_0_urls' = <<seed>>
                  /\ phase' = "ready" /\ level' = 1 /\ raised' = raised
             ELSE IF variant = "crawler"
             THEN /\ level_0_urls' = <<>>
                  /\ crawled_level_0_urls' = <<>>
                  /\ phase' = "ready" /\ level' = 1 /\ raised' = raised
             ELSE /\ phase' = "aborted"
                  /\ raised' = [kind |-> r.raised, at |-> "level0"]
                  /\ UNCHANGED <<level_0_urls, crawled_level_0_urls, level>>
    /\ UNCHANGED <<inputVars, dict_request, level_1_urls, level_2_urls,
                   crawled_level_1_urls, crawled_level_2_urls, idx, result_urls,
                   final_urls, header_calls, roundVars, filterVars, classifyVars, sessionVars>>

\* the call crawl_sub_urls(level_<k-1>_urls, crawled_level_<k-1>_urls): result_urls = []
CrawlSubUrlsCall ==
    /\ phase = "ready" /\ level <= Rounds(variant)
    /\ phase' = "sub" /\ idx' = 1 /\ result_urls' = <<>>
    /\ sub_runs' = sub_runs + 1
    /\ crawled_before' = crawled_urls
    /\ round_log' = <<>>
    /\ UNCHANGED <<inputVars, dict_request, levelVars, level, final_urls, raised,
                   header_calls, crawl_calls, page_loads, filterVars, classifyVars, sessionVars>>

\* assignment of level_<kr>_urls and of crawled_level_<kc>_urls (-1: none)
AssignLevels(kr, res, kc, cr) ==
    /\ level_0_urls' = IF kr = 0 THEN res ELSE level_0_urls
    /\ level_1_urls' = IF kr = 1 THEN res ELSE level_1_urls
    /\ level_2_urls' = IF kr = 2 THEN res ELSE level_2_urls
    /\ crawled_level_0_urls' = IF kc = 0 THEN cr ELSE crawled_level_0_urls
    /\ crawled_level_1_urls' = IF kc = 1 THEN cr ELSE crawled_level_1_urls
    /\ crawled_level_2_urls' = IF kc = 2 THEN cr ELSE crawled_level_2_urls

\* except Exception as e: of crawl_sub_urls catches the kind
CaughtPerUrl(kind) == kind = Exc

\* faulty variant: a caught exception ends the for loop
AfterCaught_Break(i, us) == Len(us) + 1

\* the for loop after an iteration whose exception was caught: the next url
AfterCaught(i, us) == i + 1

\* faulty variant: the membership test is missing
AlreadyCrawled_Never(url, crawled) == FALSE

\* if url not in crawled_urls: the url is passed over when it is in the list
AlreadyCrawled(url, crawled) == InList(url, crawled)

\* faulty variant: a url that classification rejects is added to the results
AfterRejected_Append(results, url) == Append(results, url)

\* the if statement of crawl_sub_urls has no else branch: result_urls is left alone
AfterRejected(results, url) == results

LogEntry(url, outcome, links) == [url |-> url, outcome |-> outcome, links |-> links]

Logged(entry) == round_log' = Append(round_log, entry)

\* the iteration goes on to position i of urls, nothing else of the run changes
Continue(i) ==
    /\ idx' = i
    /\ UNCHANGED <<phase, level, raised, final_urls, sub_runs, crawled_before>>

\* an exception leaves crawl_sub_urls: crawler.py substitutes [] and [] for the
\* level (except:), crawl() of just_sitemaps.py has no handler
Propagate(kind) ==
    IF variant = "crawler"
    THEN /\ AssignLevels(level, <<>>, level, <<>>)
         /\ phase' = "ready" /\ level' = level + 1
         /\ UNCHANGED <<idx, raised, final_urls, sub_runs, crawled_before>>
    ELSE /\ AssignLevels(-1, <<>>, -1, <<>>)
         /\ phase' = "aborted"
         /\ raised' = [kind |-> kind, at |-> IF level = 1 THEN "level1" ELSE "level2"]
         /\ UNCHANGED <<idx, level, final_urls, sub_runs, crawled_before>>

\* one iteration of the for loop of crawl_sub_urls
CrawlSubUrlsStep ==
    /\ phase = "sub" /\ idx <= Len(urls)
    /\ LET url == urls[idx]
           headers == HeaderResults[url]
           crawlable == {h \in headers : h.raised = NoExc /\ Crawlable(h.value)}
       IN
       \/ \* if url not in crawled_urls: fails, the url is passed over
          /\ AlreadyCrawled(url, crawled_urls)
          /\ Logged(LogEntry(url, "visited", <<>>))
          /\ Continue(idx + 1)
          /\ UNCHANGED <<levelVars, result_urls, header_calls, crawl_calls, page_loads>>
       \/ \* get_url_header raises, returns {} or returns a dict that is not crawlable
          /\ ~AlreadyCrawled(url, crawled_urls)
          /\ \E h \in headers \ crawlable :
                /\ header_calls' = Called(header_calls, url)
                /\ UNCHANGED <<crawl_calls, page_loads>>
                /\ result_urls' = IF h.raised = NoExc /\ ~h.value.empty
                                   THEN AfterRejected(result_urls, url)
                                   ELSE result_urls
                /\ IF h.raised # NoExc /\ ~CaughtPerUrl(h.raised)
                   THEN /\ Logged(LogEntry(url, "propagated", <<>>))
                        /\ Propagate(h.raised)
                   ELSE /\ UNCHANGED levelVars
                        /\ IF h.raised # NoExc
                           THEN /\ Logged(LogEntry(url, "header_raised", <<>>))
                                /\ Continue(AfterCaught(idx, urls))
                           ELSE IF h.value.empty
                           THEN /\ Logged(LogEntry(url, "key_error", <<>>))
                                /\ Continue(AfterCaught(idx, urls))
                           ELSE /\ Logged(LogEntry(url, "rejected", <<>>))
                                /\ Continue(idx + 1)
       \/ \* crawlable: result_urls.append(url), crawl_url, crawled_urls.append(url),
          \* result_urls.extend(new_urls)
          /\ ~AlreadyCrawled(url, crawled_urls)
          /\ crawlable # {}
          /\ header_calls' = Called(header_calls, url)
          /\ crawl_calls' = Called(crawl_calls, url)
          /\ \E r \in UNION {CrawlResults[variant, url, h.value, url_kw] : h \in crawlable} :
                /\ page_loads' = IF r.loaded THEN Called(page_loads, url) ELSE page_loads
                /\ IF r.raised = NoExc
                   THEN /\ result_urls' = Append(result_urls, url) \o r.value
                        /\ AssignLevels(-1, <<>>, level - 1, Append(crawled_urls, url))
                        /\ Logged(LogEntry(url, "crawled", r.value))
                        /\ Continue(idx + 1)
                   ELSE IF CaughtPerUrl(r.raised)
                   THEN /\ result_urls' = Append(result_urls, url)
                        /\ UNCHANGED levelVars
                        /\ Logged(LogEntry(url, "crawl_raised", <<>>))
                        /\ Continue(AfterCaught(idx, urls))
                   ELSE /\ result_urls' = Append(result_urls, url)
                        /\ Logged(LogEntry(url, "propagated", <<>>))
                        /\ Propagate(r.raised)
    /\ UNCHANGED <<inputVars, dict_request, filterVars, classifyVars, sessionVars>>

\* return list(dict.fromkeys(result_urls)), list(dict.fromkeys(crawled_urls)) and
\* the caller's assignment to level_k_urls, crawled_level_k_urls
CrawlSubUrlsReturn ==
    /\ phase = "sub" /\ idx > Len(urls)
    /\ AssignLevels(level, DictFromKeys(result_urls), level, DictFromKeys(crawled_urls))
    /\ phase' = "ready" /\ level' = level + 1
    /\ UNCHANGED <<inputVars, dict_request, idx, result_urls, final_urls, raised,
                   header_calls, crawl_calls, page_loads, roundVars, filterVars, classifyVars, sessionVars>>

\* faulty variant: the concatenation is returned without dict.fromkeys
UnionOfLevels_NoDedup(v, url, l0, l1, l2) ==
    url \o l0 \o l1 \o (IF v = "sitemaps" THEN l2 ELSE <<>>)

\* list(dict.fromkeys(url + level_0_urls + level_1_urls [+ level_2_urls]))
UnionOfLevels(v, url, l0, l1, l2) ==
    DictFromKeys(url \o l0 \o l1 \o (IF v = "sitemaps" THEN l2 ELSE <<>>))

\* the final union; crawl() returns it, crawler.py prints and writes it
FinalUnion ==
    /\ phase = "ready" /\ level > Rounds(variant)
    /\ final_urls' = UnionOfLevels(variant, <<seed>>, level_0_urls, level_1_urls,
                                   level_2_urls)
    /\ phase' = "done"
    /\ UNCHANGED <<inputVars, dict_request, levelVars, level, idx, result_urls,
                   raised, header_calls, crawl_calls, page_loads, roundVars, filterVars, classifyVars, sessionVars>>

Next ==
    \/ Usage
    \/ ClassifySeed
    \/ Level0
    \/ CrawlSubUrlsCall
    \/ CrawlSubUrlsStep
    \/ CrawlSubUrlsReturn
    \/ FinalUnion

Spec == Init /\ [][Next]_vars

(***************************************************************************)
(* The link filter on its own: FilterLinks applied to drawn raw links      *)
(***************************************************************************)

InitFilter ==
    /\ variant \in Variants
    /\ argc = 3
    /\ seed \in Seeds
    /\ url_kw \in IF variant = "crawler" THEN Keywords ELSE {""}
    /\ phase = "filter"
    /\ dict_request = EmptyDict
    /\ level_0_urls = <<>> /\ level_1_urls = <<>> /\ level_2_urls = <<>>
    /\ crawled_level_0_urls = <<>> /\ crawled_level_1_urls = <<>>
    /\ crawled_level_2_urls = <<>>
    /\ level = 0 /\ idx = 0 /\ result_urls = <<>> /\ final_urls = <<>>
    /\ raised = NoRaise
    /\ header_calls = [u \in AllUrls |-> 0] /\ crawl_calls = [u \in AllUrls |-> 0]
    /\ page_loads = [u \in AllUrls |-> 0]
    /\ sub_runs = 0 /\ crawled_before = <<>> /\ round_log = <<>>
    /\ raw_links \in SeqsUpTo(FilterRawLinks, MaxFilterLinks)
    /\ filtered = <<>>
    /\ ClassifyIdle /\ SessionIdle

\* the filter loop of crawl_url on the page seed with the anchors raw_links
ApplyFilter ==
    /\ phase = "filter"
    /\ filtered' = FilterLinks(variant, seed, raw_links, url_kw)
    /\ phase' = "filtered"
    /\ UNCHANGED <<inputVars, dict_request, levelVars, level, idx, result_urls,
                   final_urls, raised, header_calls, crawl_calls, page_loads, roundVars,
                   raw_links, classifyVars, sessionVars>>

NextFilter == ApplyFilter

SpecFilter == InitFilter /\ [][NextFilter]_vars

(***************************************************************************)
(* The classifier on its own: get_url_header applied to a drawn URL under   *)
(* drawn outcomes of its collaborators                                      *)
(***************************************************************************)

InitClassify ==
    /\ variant \in Variants
    /\ argc = 3
    /\ seed \in {"http://x.com/"}
    /\ url_kw = ""
    /\ phase = "classify"
    /\ dict_request = EmptyDict
    /\ level_0_urls = <<>> /\ level_1_urls = <<>> /\ level_2_urls = <<>>
    /\ crawled_level_0_urls = <<>> /\ crawled_level_1_urls = <<>>
    /\ crawled_level_2_urls = <<>>
    /\ level = 0 /\ idx = 0 /\ result_urls = <<>> /\ final_urls = <<>>
    /\ raised = NoRaise
    /\ header_calls = [u \in AllUrls |-> 0] /\ crawl_calls = [u \in AllUrls |-> 0]
    /\ page_loads = [u \in AllUrls |-> 0]
    /\ sub_runs = 0 /\ crawled_before = <<>> /\ round_log = <<>>
    /\ raw_links = <<>> /\ filtered = <<>>
    /\ header_url \in ClassifyUrls
    /\ header_env \in HeaderEnvs
    /\ header_steps = Unset /\ header_result = Unset
    /\ SessionIdle

\* one call get_url_header(header_url)
Classify ==
    /\ phase = "classify"
    /\ header_steps' = HeaderSteps(header_url, header_env)
    /\ header_result' = get_url_header(header_url, header_env)
    /\ phase' = "classified"
    /\ UNCHANGED <<inputVars, dict_request, levelVars, level, idx, result_urls,
                   final_urls, raised, header_calls, crawl_calls, page_loads, roundVars,
                   filterVars, header_url, header_env, sessionVars>>

NextClassify == Classify

SpecClassify == InitClassify /\ [][NextClassify]_vars

(***************************************************************************)
(* The webdriver sessions of a run: get_url_header and crawl_url followed   *)
(* statement by statement (create_webdriver, try body, finally, exit), in   *)
(* the order in which the entry points call them                            *)
(***************************************************************************)

InitSessions ==
    /\ variant \in Variants
    /\ argc = 3
    /\ seed = "http://x.com/"
    /\ url_kw = ""
    /\ phase = "start"
    /\ dict_request = EmptyDict
    /\ level_0_urls = <<>> /\ level_1_urls = <<>> /\ level_2_urls = <<>>
    /\ crawled_level_0_urls = <<>> /\ crawled_level_1_urls = <<>>
    /\ crawled_level_2_urls = <<>>
    /\ level = 0 /\ idx = 0 /\ result_urls = <<>> /\ final_urls = <<>>
    /\ raised = NoRaise
    /\ header_calls = [u \in AllUrls |-> 0] /\ crawl_calls = [u \in AllUrls |-> 0]
    /\ page_loads = [u \in AllUrls |-> 0]
    /\ sub_runs = 0 /\ crawled_before = <<>> /\ round_log = <<>>
    /\ raw_links = <<>> /\ filtered = <<>>
    /\ ClassifyIdle /\ SessionIdle

\* what the session specification leaves alone
dataVars == <<inputVars, dict_request, levelVars, result_urls, final_urls,
              header_calls, crawl_calls, page_loads, roundVars, filterVars,
              classifyVars>>

\* sessions created and not yet quit
open_sessions == sessions_created - sessions_quit

\* the function the run calls at its position: get_url_header for the seed and at
\* the head of an iteration of crawl_sub_urls, crawl_url after it
NextFunction == IF phase \in {"start", "sub"} THEN "get_url_header" ELSE "crawl_url"

\* the run calls get_url_header or crawl_url; "sub" is the head of an iteration of
\* the for loop of crawl_sub_urls, "sub_crawl" the crawl_url call of the iteration
CallFunction ==
    /\ fn = "none" /\ phase \in {"start", "level0", "sub", "sub_crawl"}
    /\ phase = "sub" => idx < MaxRoundUrls
    /\ fn' = NextFunction /\ pc' = "create"
    /\ UNCHANGED <<dataVars, phase, level, idx, raised, pending,
                   sessions_created, sessions_quit>>

\* driver = create_webdriver(); if driver is None: return {} / return []
CreateWebdriver ==
    /\ pc = "create"
    /\ \/ /\ sessions_created' = sessions_created + 1
          /\ pc' = "try" /\ pending' = pending
       \/ /\ sessions_created' = sessions_created
          /\ pc' = "exit" /\ pending' = [raised |-> NoExc, crawlable |-> FALSE]
    /\ UNCHANGED <<dataVars, phase, level, idx, raised, fn, sessions_quit>>

\* how the try body of function f ends: get_url_header returns a dict (crawlable or
\* not) or raises; crawl_url returns a list, also from its except Exception
\* handler, or is left by an exception that is not an Exception
BodyOutcomes(f) ==
    IF f = "get_url_header"
    THEN [raised : {NoExc}, crawlable : BOOLEAN]
            \cup [raised : {Exc, BaseExc}, crawlable : {FALSE}]
    ELSE [raised : {NoExc, BaseExc}, crawlable : {FALSE}]

\* faulty variant: driver.quit() is the last statement of the try body
QuitOnPath_ReturnOnly(p) == p.raised = NoExc

\* finally: driver.quit() runs however the try body ends
QuitOnPath(p) == TRUE

\* the try body of the function in execution
TryBody ==
    /\ pc = "try"
    /\ \E p \in BodyOutcomes(fn) :
          /\ pending' = p
          /\ pc' = IF QuitOnPath(p) THEN "finally" ELSE "exit"
    /\ UNCHANGED <<dataVars, phase, level, idx, raised, fn,
                   sessions_created, sessions_quit>>

\* finally: driver.quit(); an exception of quit replaces the pending outcome
Finally ==
    /\ pc = "finally"
    /\ sessions_quit' = sessions_quit + 1
    /\ \E q \in {NoExc, Exc} :
          pending' = IF q = Exc THEN [raised |-> Exc, crawlable |-> FALSE] ELSE pending
    /\ pc' = "exit"
    /\ UNCHANGED <<dataVars, phase, level, idx, raised, fn, sessions_created>>

\* the position of the run becomes ph at level lv, url number ix
Advance(ph, lv, ix) ==
    /\ phase' = ph /\ level' = lv /\ idx' = ix /\ raised' = raised

\* the run ends with the exception kind
Abort(kind, at) ==
    /\ phase' = "aborted" /\ raised' = [kind |-> kind, at |-> at]
    /\ UNCHANGED <<level, idx>>

\* the round in progress is over: the next round, or the final union
RoundOver ==
    Advance(IF level + 1 > Rounds(variant) THEN "done" ELSE "sub", level + 1, 0)

\* the function returns or raises to its caller, which goes on as the entry point
\* and crawl_sub_urls prescribe
Exit ==
    /\ pc = "exit"
    /\ fn' = "none" /\ pc' = "idle" /\ pending' = Unset
    /\ IF phase = "start"
       THEN IF pending.raised = NoExc THEN Advance("level0", level, idx)
            ELSE Abort(pending.raised, "classify_seed")
       ELSE IF phase = "level0"
       THEN IF pending.raised = NoExc \/ variant = "crawler" THEN Advance("sub", 1, 0)
            ELSE Abort(pending.raised, "level0")
       ELSE IF pending.raised # NoExc /\ ~CaughtPerUrl(pending.raised)
       THEN IF variant = "crawler" THEN RoundOver
            ELSE Abort(pending.raised, IF level = 1 THEN "level1" ELSE "level2")
       ELSE IF phase = "sub" /\ pending.raised = NoExc /\ pending.crawlable
       THEN Advance("sub_crawl", level, idx)
       ELSE Advance("sub", level, idx + 1)
    /\ UNCHANGED <<dataVars, sessions_created, sessions_quit>>

\* the for loop of crawl_sub_urls has no URL left: crawl_sub_urls returns
EndRound ==
    /\ fn = "none" /\ phase = "sub"
    /\ RoundOver
    /\ UNCHANGED <<dataVars, sessionVars>>

NextSessions ==
    \/ CallFunction
    \/ CreateWebdriver
    \/ TryBody
    \/ Finally
    \/ Exit
    \/ EndRound

SpecSessions == InitSessions /\ [][NextSessions]_vars

(***************************************************************************)
(* The run of crawler.py together with its keyword filter on the anchors   *)
(* of the keyword example                                                  *)
(***************************************************************************)

InitKeyword ==
    /\ variant = "crawler"
    /\ argc = 3
    /\ seed \in Seeds
    /\ url_kw = ExampleKeyword
    /\ phase = "filter"
    /\ dict_request = EmptyDict
    /\ level_0_urls = <<>> /\ level_1_urls = <<>> /\ level_2_urls = <<>>
    /\ crawled_level_0_urls = <<>> /\ crawled_level_1_urls = <<>>
    /\ crawled_level_2_urls = <<>>
    /\ level = 0 /\ idx = 0 /\ result_urls = <<>> /\ final_urls = <<>>
    /\ raised = NoRaise
    /\ header_calls = [u \in AllUrls |-> 0] /\ crawl_calls = [u \in AllUrls |-> 0]
    /\ page_loads = [u \in AllUrls |-> 0]
    /\ sub_runs = 0 /\ crawled_before = <<>> /\ round_log = <<>>
    /\ raw_links \in SeqsUpTo(KeywordRawLinks, MaxFilterLinks)
    /\ filtered = <<>>
    /\ ClassifyIdle /\ SessionIdle

SpecKeyword == (Init \/ InitKeyword) /\ [][Next \/ NextFilter]_vars

(***************************************************************************)
(* Properties                                                              *)
(***************************************************************************)

NoDuplicates(xs) == \A i, j \in 1..Len(xs) : xs[i] = xs[j] => i = j

OnSomeVisitedList(u) ==
    \/ InList(u, crawled_level_0_urls)
    \/ InList(u, crawled_level_1_urls)
    \/ InList(u, crawled_level_2_urls)

\* C1: once a URL is on a visited list, no step of the run calls get_url_header or
\* crawl_url for it again, and no visited list ever holds a URL twice.
C1_NoRevisit ==
    [][ /\ \A u \in AllUrls :
              OnSomeVisitedList(u) =>
                  /\ header_calls'[u] = header_calls[u]
                  /\ crawl_calls'[u] = crawl_calls[u]
        /\ NoDuplicates(crawled_level_0_urls')
        /\ NoDuplicates(crawled_level_1_urls')
        /\ NoDuplicates(crawled_level_2_urls') ]_vars

\* a round met a URL that was already visited (the seed or an earlier page) and
\* passed it over, while it crawled another one
C1_Witness ==
    /\ \E i \in 1..Len(round_log) : round_log[i].outcome = "visited"
    /\ \E i \in 1..Len(round_log) : round_log[i].outcome = "crawled"
    /\ Len(crawled_urls) >= 2

\* the latest crawl_sub_urls round has returned to its caller
RoundReturned ==
    /\ phase \in {"ready", "done"} /\ sub_runs >= 1
    /\ \A i \in 1..Len(round_log) : round_log[i].outcome # "propagated"

RaisedInRound(i) == round_log[i].outcome \in {"header_raised", "key_error", "crawl_raised"}

\* C2: when the processing of one URL of a round raised, every URL of the list was
\* still iterated; each one that was unvisited at the call was classified; each one
\* that was crawled is in the returned results with all its links and in the
\* returned visited list.
C2_OthersStillProcessed ==
    (RoundReturned /\ \E i \in 1..Len(round_log) : RaisedInRound(i)) =>
        LET k == level - 1
            input == LevelUrls(k - 1)
        IN /\ Len(round_log) = Len(input)
           /\ \A i \in 1..Len(input) :
                 LET e == round_log[i] IN
                 /\ e.url = input[i]
                 /\ ~InList(e.url, crawled_before) =>
                        e.outcome # "visited" /\ header_calls[e.url] >= 1
                 /\ e.outcome = "crawled" =>
                        /\ InList(e.url, LevelUrls(k))
                        /\ \A l \in Elems(e.links) : InList(l, LevelUrls(k))
                        /\ InList(e.url, CrawledLevel(k))

\* a returned round in which one URL raised and a later URL of the list was crawled
C2_Witness ==
    /\ RoundReturned
    /\ \E i, j \in 1..Len(round_log) :
          /\ i < j /\ RaisedInRound(i)
          /\ round_log[j].outcome = "crawled" /\ round_log[j].links # <<>>

\* C3: a URL whose classification or fetch raised in a returned round is not in the
\* round's result list, unless a page crawled in the round links to it.
C3_RaisingUrlDropped ==
    RoundReturned =>
        \A i \in 1..Len(round_log) :
            (RaisedInRound(i) /\ InList(round_log[i].url, LevelUrls(level - 1))) =>
                \E j \in 1..Len(round_log) :
                    /\ j # i /\ round_log[j].outcome = "crawled"
                    /\ InList(round_log[i].url, round_log[j].links)

\* C4: an Exception raised by the expansion of a level never ends the run; the
\* level's lists are replaced by empty ones and the run goes on.
C4_LevelFailureSubstituted ==
    ~(/\ phase = "aborted" /\ raised.kind = Exc
      /\ raised.at \in {"level0", "level1", "level2"})

\* C5: no failure of a collaborator (an Exception of the GET, the HEAD probe, the
\* webdriver creation, the page load or the driver shutdown) ends the run before
\* its final union.
C5_RunReachesUnion == phase = "aborted" => raised.kind # Exc

\* position of the first occurrence of x in xs
FirstIndex(x, xs) == CHOOSE i \in 1..Len(xs) : xs[i] = x /\ \A j \in 1..(i - 1) : xs[j] # x

\* C6: crawl() of just_sitemaps.py returns the seed first, then exactly the URLs of
\* levels 0, 1 and 2, each once, in the order of their first discovery, after
\* exactly two crawl_sub_urls rounds.
C6_FinalUnionOfThreeLevels ==
    (phase = "done" /\ variant = "sitemaps") =>
        LET all == <<seed>> \o level_0_urls \o level_1_urls \o level_2_urls IN
        /\ final_urls # <<>> /\ final_urls[1] = seed
        /\ NoDuplicates(final_urls)
        /\ Elems(final_urls) = {seed} \cup Elems(level_0_urls)
                                   \cup Elems(level_1_urls) \cup Elems(level_2_urls)
        /\ \A i, j \in 1..Len(final_urls) :
              i < j => FirstIndex(final_urls[i], all) < FirstIndex(final_urls[j], all)
        /\ sub_runs = 2

\* a finished run of crawl() whose three levels are non-empty, repeat URLs of each
\* other and add URLs beyond the seed
C6_Witness ==
    /\ phase = "done" /\ variant = "sitemaps"
    /\ level_0_urls # <<>> /\ level_2_urls # <<>>
    /\ Elems(level_1_urls) \cap Elems(level_0_urls) # {}
    /\ Elems(level_2_urls) \ Elems(level_0_urls) # {}
    /\ Len(final_urls) >= 3

\* the visited list of the run: the one in use by the round in progress, or the
\* one the latest level left
Visited == IF level >= 1 THEN CrawledLevel(level - 1) ELSE <<>>

\* C7: the visited list only grows, also where a level fails.
C7_VisitedOnlyGrows == [][Elems(Visited) \subseteq Elems(Visited')]_vars

\* the identity the claim ascribes to the membership test: the URL without "www."
NormalizedKey(u) == Replace(u, "www.", "")

\* C8: of the "www." form and the bare form of one URL at most one is classified.
C8_WwwFormsCollapsed ==
    \A u, v \in AllUrls :
        (/\ header_calls[u] >= 1 /\ header_calls[v] >= 1
         /\ NormalizedKey(u) = NormalizedKey(v)) => u = v

\* the two forms of one same-site link
WwwPair == {"http://www.x.com/a", "http://x.com/a"}

\* C9: on a page of either host form, both forms of a same-site link pass the filter.
C9_BothFormsAccepted ==
    phase = "filtered" =>
        \A i \in 1..Len(raw_links) :
            raw_links[i] \in WwwPair => InList(raw_links[i], filtered)

\* C10: the filter output holds no void-script, anchor or mailto link, and the raw
\* links of the example on root http://x.com/ give exactly http://x.com/about.
C10_FilterExclusion ==
    phase = "filtered" =>
        /\ \A i \in 1..Len(filtered) :
              /\ ~Contains("javascript:void(0)", filtered[i])
              /\ ~Contains("#", filtered[i])
              /\ ~Contains("mailto:", filtered[i])
        /\ (/\ seed = "http://x.com/" /\ url_kw = ""
            /\ raw_links = <<"javascript:void(0)", "mailto:a@b.com", "/about", "#section">>)
               => Elems(filtered) = {"http://x.com/about"}

\* the anchors of the page after "if 'http' not in href: href = main + href"
ResolvedRawLinks ==
    [i \in 1..Len(raw_links) |-> ResolveHref(MainOf(seed), raw_links[i])]

OfSameSite(h) == Contains(MainOf(seed), h) \/ Contains(MainWwwOf(seed), h)

AllContain(kw, xs) == \A i \in 1..Len(xs) : Contains(kw, xs[i])

\* C11: with a keyword configured in crawler.py, every link the filter returns
\* contains the keyword and every same-domain link without "javascript:void(0)",
\* "#" and "mailto:" that contains it is returned (keyword "news" on http://x.com/:
\* http://x.com/sports is left out, http://x.com/news/1 is returned); every URL of
\* the level results of a run contains the keyword, and so does every URL of the
\* final list other than the seed.
C11_KeywordGate ==
    variant = "crawler" =>
        /\ phase = "filtered" =>
              /\ AllContain(url_kw, filtered)
              /\ \A i \in 1..Len(raw_links) :
                    LET h == ResolvedRawLinks[i] IN
                    (/\ OfSameSite(h) /\ Contains(url_kw, h)
                     /\ ~Contains("javascript:void(0)", h) /\ ~Contains("#", h)
                     /\ ~Contains("mailto:", h)) => InList(h, filtered)
              /\ (seed = "http://x.com/" /\ url_kw = "news") =>
                    /\ ~InList("http://x.com/sports", filtered)
                    /\ InList("http://x.com/news/1", raw_links)
                          => InList("http://x.com/news/1", filtered)
        /\ phase \notin {"filter", "filtered"} =>
              /\ AllContain(url_kw, level_0_urls)
              /\ AllContain(url_kw, level_1_urls)
              /\ AllContain(url_kw, result_urls)
              /\ \A i \in 1..Len(final_urls) :
                    final_urls[i] # seed => Contains(url_kw, final_urls[i])

\* the keyword example: a page of http://x.com/ with anchors to /sports and to /news/1
C11_Witness ==
    /\ phase = "filtered" /\ variant = "crawler"
    /\ seed = "http://x.com/" /\ url_kw = "news"
    /\ InList("http://x.com/sports", raw_links)
    /\ InList("http://x.com/news/1", raw_links)
    /\ InList("http://x.com/news/1", filtered)
    /\ ~InList("http://x.com/sports", filtered)

\* get_url_header was applied to header_url and got as far as its try statement
Classified == phase = "classified" /\ header_env.driver

\* C12: when the direct GET answers 403 or 302, the cross-check is not entered and
\* the returned dict has status_code 200, whatever the HEAD probe, the body markers
\* and the captured requests are; the call returns unless driver.quit() raises.
C12_ForbiddenAndRedirectAreOK ==
    (/\ Classified /\ header_env.get.raised = NoExc
     /\ header_env.get.status_code \in {403, 302}) =>
        /\ ~header_steps.entered
        /\ header_steps.cross = header_steps.norm
        /\ header_result.raised # NoExc => header_env.quit = Exc
        /\ header_result.raised = NoExc =>
              /\ ~header_result.value.empty
              /\ header_result.value.status_code = 200

\* a GET answered 403 whose HEAD probe failed, with a captured request of the site
\* that has another status: the call returned status_code 200
C12_Witness ==
    /\ Classified /\ header_env.get.raised = NoExc /\ header_env.get.status_code = 403
    /\ header_env.head.raised = Exc
    /\ \E i \in 1..Len(header_env.captured.reqs) :
          /\ Contains(get_result_meta(header_url), header_env.captured.reqs[i].url)
          /\ header_env.captured.reqs[i].status_code = 404
    /\ header_result.raised = NoExc /\ header_result.value.status_code = 200

\* C15: when the direct GET raises a network error, get_url_header does not raise:
\* it returns a dict with status_code -1 and a content type, whatever the extension
\* of the URL is.
C15_NetworkFailureFallsThrough ==
    (/\ Classified /\ header_env.get.raised = Exc /\ header_env.quit = NoExc) =>
        /\ header_result.raised = NoExc
        /\ ~header_result.value.empty
        /\ header_result.value.status_code = -1
        /\ header_result.value.content_type # None

\* positions of the captured requests that match the site root
Matching(main, reqs) == {i \in 1..Len(reqs) : Contains(main, reqs[i].url)}

\* positions of the matching captured requests with a response of status 200 or 302
MatchingOK(main, reqs) ==
    {i \in Matching(main, reqs) : reqs[i].has_response /\ reqs[i].status_code \in {200, 302}}

\* reading the captured requests raises before position n is done
ReadRaises(main, captured, n) ==
    \/ captured.raises
    \/ \E i \in Matching(main, captured.reqs) : i <= n /\ ~captured.reqs[i].has_response

\* C16: the cross-check is entered exactly when the normalized status is neither
\* 200 nor -1; it replaces status and content type by those of the first matching
\* captured request of status 200 or 302; without such a request, or when reading
\* the captured requests raises, status and content type stay those of the direct
\* request.
C16_CrossCheckAdoptsFirstOK ==
    (Classified /\ header_env.get.raised # BaseExc) =>
        LET main == get_result_meta(header_url)
            reqs == header_env.captured.reqs
            ok == MatchingOK(main, reqs)
            first == CHOOSE i \in ok : \A j \in ok : i <= j
        IN /\ header_steps.entered <=> header_steps.norm.status_code \notin {200, -1}
           /\ ~header_steps.entered => header_steps.cross = header_steps.norm
           /\ header_steps.entered =>
                 IF ok # {} /\ ~ReadRaises(main, header_env.captured, first)
                 THEN header_steps.cross = [status_code |-> reqs[first].status_code,
                                            content_type |-> reqs[first].content_type]
                 ELSE header_steps.cross = header_steps.norm

\* C17: the content-type fallback turns a content type that contains "binary",
\* "json" or "plain" into "html", any other empty content type into "error", and
\* returns every other content type unchanged.
C17_ContentTypeFallback ==
    (Classified /\ header_result.raised = NoExc) =>
        LET ct == header_steps.cross.content_type
            out == header_result.value.content_type
        IN IF Contains("binary", ct) \/ Contains("json", ct) \/ Contains("plain", ct)
           THEN out = "html" /\ (header_result.value.status_code \in {200, 302}
                                    => Crawlable(header_result.value))
           ELSE IF ct = "" THEN out = "error"
           ELSE out = ct

\* the entry the step has just added to the log of the round
LastLogged == round_log[Len(round_log)]

\* what a returned round has left of the URLs it rejected
RejectedLeftOut ==
    RoundReturned =>
        \A i \in 1..Len(round_log) :
            round_log[i].outcome = "rejected" =>
                /\ ~InList(round_log[i].url, CrawledLevel(level - 1))
                /\ InList(round_log[i].url, LevelUrls(level - 1)) =>
                       \E j \in 1..Len(round_log) :
                           /\ j # i /\ round_log[j].outcome = "crawled"
                           /\ InList(round_log[i].url, round_log[j].links)

\* C13: the step of a round (level k >= 1) that rejects a URL issues no crawl_url
\* call and no page load for it and changes neither the results nor the visited
\* list; when the round has returned, the URL is not in the returned visited list
\* and is in the returned results only if a page crawled in the round links to it.
C13_RejectedSkipped ==
    [][ /\ (/\ phase = "sub" /\ Len(round_log') = Len(round_log) + 1
            /\ LastLogged'.outcome = "rejected") =>
               /\ crawl_calls' = crawl_calls /\ page_loads' = page_loads
               /\ result_urls' = result_urls
               /\ UNCHANGED levelVars
               /\ ~InList(LastLogged'.url, crawled_urls')
        /\ RejectedLeftOut' ]_vars

\* a returned round that rejected one URL and crawled another
C13_Witness ==
    /\ RoundReturned
    /\ \E i, j \in 1..Len(round_log) :
          /\ round_log[i].outcome = "rejected" /\ round_log[j].outcome = "crawled"
          /\ ~InList(round_log[i].url, LevelUrls(level - 1))

\* the step classified url as crawlable before it went on to crawl_url: the seed by
\* the dict_request of the run, a URL of a round by the get_url_header call of the
\* same iteration
ClassifiedCrawlableBeforeLoad(u) ==
    IF phase = "level0"
    THEN u = seed /\ header_calls[seed] >= 1 /\ Crawlable(dict_request)
    ELSE /\ phase = "sub" /\ u = urls[idx]
         /\ header_calls'[u] = header_calls[u] + 1
         /\ LastLogged'.url = u
         /\ LastLogged'.outcome \in {"crawled", "crawl_raised", "propagated"}

\* links were taken from the page of the seed
SeedExpanded == level_0_urls # <<>>

\* C14: a page load is issued for a URL, the seed included, only in a step that
\* follows its classification as crawlable; a seed that is not classified as
\* crawlable is never loaded and never expanded.
C14_LoadOnlyIfCrawlable ==
    [][ /\ \A u \in AllUrls :
              page_loads'[u] > page_loads[u] => ClassifiedCrawlableBeforeLoad(u)
        /\ (phase = "level0" /\ ~Crawlable(dict_request)) =>
              (page_loads' = page_loads /\ ~SeedExpanded') ]_vars

\* C18: at most one webdriver session is open at any point of a run; a function
\* that is about to return or raise, and a run between two calls or at its end,
\* has no session open: every driver created was quit.
C18_SessionsSequential ==
    /\ open_sessions \in {0, 1}
    /\ pc = "exit" => open_sessions = 0
    /\ fn = "none" => open_sessions = 0
    /\ phase \in {"done", "aborted"} => open_sessions = 0
    /\ open_sessions = 1 => fn \in {"get_url_header", "crawl_url"} /\ pc \in {"try", "finally"}

\* a function whose try body raised is about to raise to its caller, in a run that
\* had opened and quit a session before
C18_Witness ==
    /\ pc = "exit" /\ pending.raised # NoExc
    /\ sessions_created >= 2 /\ sessions_quit = sessions_created

TypeOK ==
    phase \in {"start", "usage", "level0", "ready", "sub", "done", "aborted", "filter", "filtered",
               "classify", "classified", "sub_crawl"}
====
